---- MODULE Spec2Model ----
(***************************************************************************)
(* Model of arduino-cli's compilation database recorder                    *)
(* (internal/arduino/builder/internal/compilation/database.go) and of the  *)
(* control flow of the compile command (commands/compile/compile.go).      *)
(*                                                                         *)
(* Spec        : the Database operations NewDatabase, LoadDatabase, Add    *)
(*               and SaveToFile, run against a small filesystem that other *)
(*               programs write too.                                       *)
(* SpecCompile : one execution of compile.run, one action per step.        *)
(***************************************************************************)
EXTENDS Naturals, Sequences, FiniteSets

VARIABLES
    dbs,      \* the *Database values handed to the caller so far, in creation order
    files,    \* the filesystem: path -> content of the file
    loaded,   \* what the most recent call returned when it was LoadDatabase: (db, err)
    saved,    \* per path: the slice whose serialization the file holds since a successful SaveToFile
    adds,     \* per Database: the Add calls made on it and the entries it started with
    pc,       \* compile.run: the step about to execute
    flags,    \* compile.run: the command line (package-level var flags, and args)
    sketch,   \* compile.run: the local sketch: nil, or a sketch and the parts of its Metadata.CPU.Fqbn
    fqbn,     \* compile.run: the local fqbn, as its number of ':'-separated parts (0 = "")
    ctx,      \* compile.run: the fields of types.Context the run has set
    errors,   \* compile.run: the messages printed through formatter.PrintError*
    exitCode, \* compile.run: the argument of os.Exit, "none" while the process runs
    invoked   \* compile.run: the builder entry points called, in order

dbVars == <<dbs, files, loaded, saved, adds>>
runVars == <<pc, flags, sketch, fqbn, ctx, errors, exitCode, invoked>>
vars == <<dbs, files, loaded, saved, adds, pc, flags, sketch, fqbn, ctx, errors, exitCode, invoked>>

(***************************************************************************)
(* Bounds and input sets                                                   *)
(***************************************************************************)
MaxDbs == 2       \* Database values created in one behaviour
MaxAdds == 2      \* Add calls made in one behaviour, over all Database values

Paths == {"/out/compile_commands.json"}
Dirs == {"/work"}          \* explicit working directories of a process descriptor
WorkDirs == {"/home"}      \* directories the process itself may be in
Targets == {"/src/main.c"}
ArgVectors == {<<"gcc", "-c", "main.c">>}

(***************************************************************************)
(* Data: Command, the []Command slice, JSON texts                          *)
(***************************************************************************)
\* type Command struct: a value with every field at its zero value
ZeroCommand == [Directory |-> "", Command |-> "", Arguments |-> <<>>, File |-> ""]

\* A Go slice: nil or not, and its elements.  []Command{} is EmptySlice.
NilSlice == [nil |-> TRUE, elems |-> <<>>]
EmptySlice == [nil |-> FALSE, elems |-> <<>>]

\* A file's content.  kind is
\*   "missing"  no such file
\*   "invalid"  bytes that are not a JSON text
\*   "partial"  a strict prefix of a JSON text (a write that stopped early)
\*   "null"     the JSON text null
\*   "scalar"   a JSON text that is neither null nor an array (number, string, object)
\*   "array"    a JSON array of objects; elems are its elements
Missing == [kind |-> "missing", elems |-> <<>>]
Invalid == [kind |-> "invalid", elems |-> <<>>]
Partial == [kind |-> "partial", elems |-> <<>>]
JNull == [kind |-> "null", elems |-> <<>>]
JScalar == [kind |-> "scalar", elems |-> <<>>]
JArray(es) == [kind |-> "array", elems |-> es]

\* An element of a JSON array: an object with the keys `keys` among directory,
\* command, arguments and file, a string for each but arguments, an array of strings.
JObject(ks, d, c, a, f) ==
    [keys |-> ks, directory |-> d, command |-> c, arguments |-> a, file |-> f]

(***************************************************************************)
(* encoding/json as database.go uses it                                    *)
(***************************************************************************)
\* Mutant of MarshalCommand: the arguments are never written (a `json:"-"` tag).
MarshalCommandDropArguments(c) ==
    JObject({"directory", "file"} \cup (IF c.Command # "" THEN {"command"} ELSE {}),
            c.Directory, c.Command, <<>>, c.File)

\* json.Marshal of one Command under the struct tags: directory and file always
\* written, command and arguments omitted when empty.
MarshalCommand(c) ==
    JObject({"directory", "file"} \cup (IF c.Command # "" THEN {"command"} ELSE {})
                                  \cup (IF Len(c.Arguments) > 0 THEN {"arguments"} ELSE {}),
            c.Directory,
            c.Command,
            c.Arguments,
            c.File)

\* json.MarshalIndent(db.Contents, "", " "): a nil slice encodes as null, any other
\* slice as an array of its elements in order.  Strings always encode, so the call
\* never returns an error for a []Command.
MarshalIndent(contents) ==
    IF contents.nil THEN JNull
    ELSE JArray([i \in 1..Len(contents.elems) |-> MarshalCommand(contents.elems[i])])

\* Decoding one object of the array into a fresh Command: the fields whose keys
\* the object has are set, the others keep their zero value.
DecodeElem(e) ==
    [Directory |-> IF "directory" \in e.keys THEN e.directory ELSE ZeroCommand.Directory,
     Command   |-> IF "command" \in e.keys THEN e.command ELSE ZeroCommand.Command,
     Arguments |-> IF "arguments" \in e.keys THEN e.arguments ELSE ZeroCommand.Arguments,
     File      |-> IF "file" \in e.keys THEN e.file ELSE ZeroCommand.File]

\* json.Unmarshal(f, &res.Contents) with res.Contents = into: [Contents, err].
\* Bytes that are not JSON fail before anything is stored; null stores a nil slice
\* and succeeds; a value that is neither null nor an array is a type error and
\* stores nothing; an array of objects is decoded element by element.
Unmarshal(data, into) ==
    CASE data.kind \in {"invalid", "partial", "missing"} -> [Contents |-> into, err |-> TRUE]
      [] data.kind = "null" -> [Contents |-> NilSlice, err |-> FALSE]
      [] data.kind = "scalar" -> [Contents |-> into, err |-> TRUE]
      [] data.kind = "array" ->
            [Contents |-> [nil |-> FALSE,
                           elems |-> [i \in 1..Len(data.elems) |-> DecodeElem(data.elems[i])]],
             err |-> FALSE]

(***************************************************************************)
(* The collaborators of database.go                                        *)
(***************************************************************************)
\* file.ReadFile(): [data, err].  It fails when the file is missing or the read
\* fails (ioerr).
ReadFile(file, ioerr) ==
    IF files[file].kind = "missing" \/ ioerr
    THEN [data |-> Missing, err |-> TRUE]
    ELSE [data |-> files[file], err |-> FALSE]

\* db.File.WriteFile(jsonContents): the content of the file afterwards.  The file
\* is opened with O_CREATE|O_TRUNC and then written:
\*   "ok"           everything was written
\*   "open_error"   the open failed, the file is as it was
\*   "write_error"  the file was truncated and the write stopped early
WriteOutcomes == {"ok", "open_error", "write_error"}
WriteFile(before, data, outcome) ==
    CASE outcome = "ok" -> data
      [] outcome = "open_error" -> before
      [] outcome = "write_error" -> Partial

\* Where the process is when Add is called: the directory, and whether os.Getwd
\* can determine it (it cannot when the directory was removed, for instance).
WorkingDirs == [path : WorkDirs, lookup : BOOLEAN]

\* os.Getwd() of a process in wd: [dir, err]; the directory is "" on an error.
Getwd(wd) ==
    IF wd.lookup THEN [dir |-> wd.path, err |-> FALSE] ELSE [dir |-> "", err |-> TRUE]

\* A *paths.Process as Add reads it: GetDir() and GetArgs()
Processes == [Dir : {""} \cup Dirs, Args : ArgVectors]

(***************************************************************************)
(* What LoadDatabase returned                                              *)
(***************************************************************************)
\* called: the most recent call was LoadDatabase(file); db: the index in dbs of the
\* *Database returned, 0 for nil; err: "none", "read" or "parse".
NoLoad == [called |-> FALSE, file |-> "", db |-> 0, err |-> "none"]
Returned(file, db, err) == [called |-> TRUE, file |-> file, db |-> db, err |-> err]

(***************************************************************************)
(* Database operations                                                     *)
(***************************************************************************)
\* NewDatabase(filename): the Database it returns
NewDatabase(filename) == [File |-> filename, Contents |-> EmptySlice]

NotSaved == [valid |-> FALSE, Contents |-> EmptySlice]

\* A caller constructs an empty database.  The filesystem is not touched.
Construct(filename) ==
    /\ Len(dbs) < MaxDbs
    /\ dbs' = Append(dbs, NewDatabase(filename))
    /\ adds' = Append(adds, [calls |-> 0, initial |-> 0])
    /\ loaded' = NoLoad
    /\ UNCHANGED <<files, saved, runVars>>

\* Mutant of LoadDatabase: the error of ReadFile is not checked; the (empty) data
\* is unmarshalled and the database returned.
LoadDatabaseIgnoringReadError(file, ioerr) ==
    LET f == ReadFile(file, ioerr)
        res == NewDatabase(file)
        u == Unmarshal(f.data, res.Contents)
    IN  /\ Len(dbs) < MaxDbs
        /\ dbs' = Append(dbs, [res EXCEPT !.Contents = u.Contents])
        /\ adds' = Append(adds, [calls |-> 0, initial |-> Len(u.Contents.elems)])
        /\ loaded' = Returned(file, Len(dbs) + 1,
                               IF f.err THEN "read" ELSE IF u.err THEN "parse" ELSE "none")
        /\ UNCHANGED <<files, saved, runVars>>

\* LoadDatabase(file).  A read error returns (nil, err).  Otherwise the function
\* returns (res, json.Unmarshal(...)): the caller gets the Database together with
\* the parse error, if any.
LoadDatabase(file, ioerr) ==
    LET f == ReadFile(file, ioerr)
        res == NewDatabase(file)
        u == Unmarshal(f.data, res.Contents)
    IN  IF f.err
        THEN /\ loaded' = Returned(file, 0, "read")
             /\ UNCHANGED <<dbs, adds, files, saved, runVars>>
        ELSE /\ Len(dbs) < MaxDbs
             /\ dbs' = Append(dbs, [res EXCEPT !.Contents = u.Contents])
             /\ adds' = Append(adds, [calls |-> 0, initial |-> Len(u.Contents.elems)])
             /\ loaded' = Returned(file, Len(dbs) + 1, IF u.err THEN "parse" ELSE "none")
             /\ UNCHANGED <<files, saved, runVars>>

\* db.SaveToFile().  MarshalIndent cannot fail on a []Command, so the only
\* failure is the one of WriteFile, which is printed and not returned.
SaveToFile(i, outcome) ==
    LET db == dbs[i]
        jsonContents == MarshalIndent(db.Contents)
    IN  /\ files' = [files EXCEPT ![db.File] = WriteFile(@, jsonContents, outcome)]
        /\ saved' = [saved EXCEPT ![db.File] =
                        CASE outcome = "ok" -> [valid |-> TRUE, Contents |-> db.Contents]
                          [] outcome = "open_error" -> @
                          [] outcome = "write_error" -> NotSaved]
        /\ loaded' = NoLoad
        /\ UNCHANGED <<dbs, adds, runVars>>

\* Mutant of AppendEntry: the entry is put in front.
PrependEntry(contents, entry) ==
    [nil |-> FALSE, elems |-> <<entry>> \o contents.elems]

\* append(db.Contents, entry); appending to a nil slice gives a non-nil one.
AppendEntry(contents, entry) ==
    [nil |-> FALSE, elems |-> Append(contents.elems, entry)]

\* The commandDir of Add: the descriptor's directory, or what os.Getwd returned
\* when the descriptor has none (the empty string when Getwd failed).
CommandDir(command, wd) ==
    IF command.Dir = "" THEN Getwd(wd).dir ELSE command.Dir

\* The Add calls made so far, over all Database values
RECURSIVE SumCalls(_)
SumCalls(s) == IF s = <<>> THEN 0 ELSE Head(s).calls + SumCalls(Tail(s))
AddCalls == SumCalls(adds)

\* The entry Add builds
NewEntry(target, command, wd) ==
    [Directory |-> CommandDir(command, wd),
     Command   |-> "",
     Arguments |-> command.Args,
     File      |-> target]

\* db.Add(target, command), called by a process that is in wd
Add(i, target, command, wd) ==
    LET entry == NewEntry(target, command, wd)
    IN  /\ AddCalls < MaxAdds
        /\ dbs' = [dbs EXCEPT ![i].Contents = AppendEntry(@, entry)]
        /\ adds' = [adds EXCEPT ![i].calls = @ + 1]
        /\ loaded' = NoLoad
        /\ UNCHANGED <<files, saved, runVars>>

(***************************************************************************)
(* The environment of the Database                                         *)
(***************************************************************************)
\* Contents another program may leave in a file that LoadDatabase then reads:
\* bytes that are not JSON, null, a JSON value that is no array, and an array of
\* two records, one with neither command nor arguments and one with both.
ExternalContents ==
    { Invalid, JNull, JScalar,
      JArray(<<JObject({"directory", "file"}, "/work", "", <<>>, "/src/main.c"),
               JObject({"directory", "command", "arguments", "file"},
                       "/work", "gcc -c main.c", <<"gcc", "-c", "main.c">>, "/src/main.c")>>) }

ExternalWrite(p, content) ==
    /\ files[p] # content
    /\ files' = [files EXCEPT ![p] = content]
    /\ saved' = [saved EXCEPT ![p] = NotSaved]
    /\ loaded' = NoLoad
    /\ UNCHANGED <<dbs, adds, runVars>>

RemoveFile(p) ==
    /\ files[p].kind # "missing"
    /\ files' = [files EXCEPT ![p] = Missing]
    /\ saved' = [saved EXCEPT ![p] = NotSaved]
    /\ loaded' = NoLoad
    /\ UNCHANGED <<dbs, adds, runVars>>

(***************************************************************************)
(* compile.run, one action per step.  A collaborator's answer is chosen    *)
(* when the step runs.                                                     *)
(***************************************************************************)
\* The command lines explored.  fqbn is the number of ':'-separated parts of
\* --fqbn (0: the flag is absent); buildPath and buildCachePath tell whether the
\* flag is non-empty; args is len(args).
FqbnParts == {0, 2, 3, 5}
CommandLines ==
    [fqbn : FqbnParts, showProperties : BOOLEAN, preprocess : BOOLEAN,
     buildPath : BOOLEAN, buildCachePath : BOOLEAN, args : {0, 1}]
DefaultCommandLine ==
    [fqbn |-> 0, showProperties |-> FALSE, preprocess |-> FALSE,
     buildPath |-> FALSE, buildCachePath |-> FALSE, args |-> 0]

\* formatter.PrintError / PrintErrorMessage followed by os.Exit(code)
Fail(msgs, code) ==
    /\ errors' = errors \o msgs
    /\ exitCode' = code
    /\ pc' = "exited"

\* A runtime panic (nil dereference, index out of range): the Go runtime ends the
\* process; nothing goes through formatter.
Panic ==
    /\ exitCode' = "panic"
    /\ pc' = "exited"
    /\ UNCHANGED errors

\* The step succeeded: go on with step `next`.
Goto(next) ==
    /\ pc' = next
    /\ UNCHANGED <<errors, exitCode>>

\* The *Sketch values: nil, or a sketch whose metadata names an fqbn of n parts
NilSketch == [nil |-> TRUE, fqbn |-> 0]
Sketch(n) == [nil |-> FALSE, fqbn |-> n]
Sketches == {NilSketch, Sketch(0), Sketch(3)}

\* commands.InitSketch(sketchPath) returning (sk, err)
InitSketch(sk, err) ==
    /\ pc = "InitSketch"
    /\ IF err
       THEN Fail(<<"Error opening sketch.">>, "ErrGeneric") /\ UNCHANGED sketch
       ELSE Goto("SelectFqbn") /\ sketch' = sk
    /\ UNCHANGED <<flags, fqbn, ctx, invoked, dbVars>>

\* fqbn := flags.fqbn, else the sketch's; the two checks on it
SelectFqbn ==
    LET chosen == IF flags.fqbn = 0 /\ ~sketch.nil THEN sketch.fqbn ELSE flags.fqbn
    IN  /\ pc = "SelectFqbn"
        /\ fqbn' = chosen
        /\ IF chosen = 0
           THEN Fail(<<"No Fully Qualified Board Name provided.">>, "ErrGeneric")
           ELSE IF chosen < 3 \/ chosen > 4
           THEN Fail(<<"Fully Qualified Board Name has incorrect format.">>, "ErrBadArgument")
           ELSE Goto("LoadHardware")
        /\ UNCHANGED <<flags, sketch, ctx, invoked, dbVars>>

\* pm.LoadHardware()
LoadHardware(ok) ==
    /\ pc = "LoadHardware"
    /\ IF ok THEN Goto("Ctags")
             ELSE Fail(<<"Could not load hardware packages.">>, "ErrCoreConfig")
    /\ UNCHANGED <<flags, sketch, fqbn, ctx, invoked, dbVars>>

\* The ctags block: the tool is installed, or it is downloaded and installed,
\* the hardware reloaded and the tool looked up again.
CtagsOutcomes ==
    {"installed", "download_error", "response_error", "install_error",
     "reload_error", "still_missing", "installed_now"}
Ctags(outcome) ==
    /\ pc = "Ctags"
    /\ CASE outcome \in {"installed", "installed_now"} -> Goto("IsCoreInstalled")
         [] outcome \in {"download_error", "response_error"} ->
                Fail(<<"Error downloading ctags">>, "ErrNetwork")
         [] outcome = "install_error" ->
                Fail(<<"Error installing ctags", "Missing ctags tool.">>, "ErrCoreConfig")
         [] outcome = "reload_error" ->
                Fail(<<"Could not load hardware packages.">>, "ErrCoreConfig")
         [] outcome = "still_missing" ->
                Fail(<<"Missing ctags tool.">>, "ErrCoreConfig")
    /\ UNCHANGED <<flags, sketch, fqbn, ctx, invoked, dbVars>>

\* cores.IsCoreInstalled(packageName, coreName)
IsCoreInstalled(outcome) ==
    /\ pc = "IsCoreInstalled"
    /\ CASE outcome = "error" -> Fail(<<"Cannot check core installation.">>, "ErrCoreConfig")
         [] outcome = "missing" -> Fail(<<"core is not installed">>, "ErrCoreConfig")
         [] outcome = "installed" -> Goto("ParseFQBN")
    /\ UNCHANGED <<flags, sketch, fqbn, ctx, invoked, dbVars>>

\* cores.ParseFQBN(fqbn): an error is printed and the run goes on with ctx.FQBN
\* unset.  The next statement reads sketch.FullPath.
ParseFQBN(ok) ==
    /\ pc = "ParseFQBN"
    /\ IF sketch.nil
       THEN /\ exitCode' = "panic"
            /\ pc' = "exited"
            /\ errors' = IF ok THEN errors ELSE Append(errors, "Error parsing FQBN.")
            /\ ctx' = IF ok THEN ctx \cup {"FQBN"} ELSE ctx
       ELSE /\ pc' = "HardwareDirectories"
            /\ errors' = IF ok THEN errors ELSE Append(errors, "Error parsing FQBN.")
            /\ ctx' = (IF ok THEN ctx \cup {"FQBN"} ELSE ctx) \cup {"SketchLocation"}
            /\ UNCHANGED exitCode
    /\ UNCHANGED <<flags, sketch, fqbn, invoked, dbVars>>

\* configs.HardwareDirectories()
HardwareDirectories(ok) ==
    /\ pc = "HardwareDirectories"
    /\ IF ok THEN Goto("BundleToolsDirectories") /\ ctx' = ctx \cup {"HardwareFolders"}
             ELSE Fail(<<"Cannot get hardware directories.">>, "ErrCoreConfig") /\ UNCHANGED ctx
    /\ UNCHANGED <<flags, sketch, fqbn, invoked, dbVars>>

\* configs.BundleToolsDirectories()
BundleToolsDirectories(ok) ==
    /\ pc = "BundleToolsDirectories"
    /\ IF ok THEN Goto("LibrariesFolder") /\ ctx' = ctx \cup {"ToolsFolders"}
             ELSE Fail(<<"Cannot get bundled tools directories.">>, "ErrCoreConfig") /\ UNCHANGED ctx
    /\ UNCHANGED <<flags, sketch, fqbn, invoked, dbVars>>

\* configs.LibrariesFolder.Get()
LibrariesFolder(ok) ==
    /\ pc = "LibrariesFolder"
    /\ IF ok THEN Goto("BuildPath") /\ ctx' = ctx \cup {"OtherLibrariesFolders"}
             ELSE Fail(<<"Cannot get libraries folder.">>, "ErrCoreConfig") /\ UNCHANGED ctx
    /\ UNCHANGED <<flags, sketch, fqbn, invoked, dbVars>>

\* ctx.BuildPath, created when --build-path is given
BuildPath(ok) ==
    /\ pc = "BuildPath"
    /\ IF flags.buildPath /\ ~ok
       THEN Fail(<<"Cannot create the build folder.">>, "ErrBadCall") /\ UNCHANGED ctx
       ELSE Goto("BuildCachePath") /\ ctx' = ctx \cup {"BuildPath"}
    /\ UNCHANGED <<flags, sketch, fqbn, invoked, dbVars>>

\* The plain assignments to ctx, and ctx.BuildCachePath, created when
\* --build-cache-path is given
BuildCachePath(ok) ==
    /\ pc = "BuildCachePath"
    /\ IF flags.buildCachePath /\ ~ok
       THEN Fail(<<"Cannot create the build cache folder.">>, "ErrBadCall") /\ UNCHANGED ctx
       ELSE /\ Goto("ArduinoDataFolder")
            /\ ctx' = ctx \cup {"CoreBuildCachePath", "CustomBuildProperties"}
                          \cup (IF flags.buildCachePath THEN {"BuildCachePath"} ELSE {})
    /\ UNCHANGED <<flags, sketch, fqbn, invoked, dbVars>>

\* configs.ArduinoDataFolder.Get()
ArduinoDataFolder(ok) ==
    /\ pc = "ArduinoDataFolder"
    /\ IF ok THEN Goto("IdePreferences")
             ELSE Fail(<<"Cannot locate arduino data folder.">>, "ErrCoreConfig")
    /\ UNCHANGED <<flags, sketch, fqbn, ctx, invoked, dbVars>>

\* properties.Load(preferences.txt): a load error is ignored; a file with a
\* *.hardwarepath key sets the built-in libraries folder; a file without one makes
\* pathVariants[len(pathVariants)-1] index an empty slice.
IdePreferences(outcome) ==
    /\ pc = "IdePreferences"
    /\ CASE outcome = "load_error" -> Goto("RunBuilder") /\ UNCHANGED ctx
         [] outcome = "hardwarepath" ->
                Goto("RunBuilder") /\ ctx' = ctx \cup {"BuiltInLibrariesFolders"}
         [] outcome = "no_hardwarepath" -> Panic /\ UNCHANGED ctx
    /\ UNCHANGED <<flags, sketch, fqbn, invoked, dbVars>>

\* The builder entry point the flags select
EntryPoint ==
    IF flags.showProperties THEN "RunParseHardwareAndDumpBuildProperties"
    ELSE IF flags.preprocess THEN "RunPreprocess"
    ELSE "RunBuilder"

\* The builder call and the check of its error
RunBuilder(ok) ==
    /\ pc = "RunBuilder"
    /\ invoked' = Append(invoked, EntryPoint)
    /\ IF ok THEN Goto("CopyHex")
             ELSE Fail(<<"Compilation failed.">>, "ErrGeneric")
    /\ UNCHANGED <<flags, sketch, fqbn, ctx, dbVars>>

\* Copy of the .hex file; sketchPath is nil when no argument was given, and
\* sketchPath.Join dereferences it.
CopyHex(ok) ==
    /\ pc = "CopyHex"
    /\ IF flags.args = 0 THEN Panic
       ELSE IF ok THEN Goto("CopyElf")
       ELSE Fail(<<"Error copying output file.">>, "ErrGeneric")
    /\ UNCHANGED <<flags, sketch, fqbn, ctx, invoked, dbVars>>

\* Copy of the .elf file, then run returns
CopyElf(ok) ==
    /\ pc = "CopyElf"
    /\ IF ok THEN Goto("returned")
             ELSE Fail(<<"Error copying elf file.">>, "ErrGeneric")
    /\ UNCHANGED <<flags, sketch, fqbn, ctx, invoked, dbVars>>

\* The state of a run before its first statement, on command line f
RunStart(f) ==
    /\ pc = "InitSketch" /\ flags = f /\ sketch = NilSketch /\ fqbn = 0 /\ ctx = {}
    /\ errors = <<>> /\ exitCode = "none" /\ invoked = <<>>

NextCompile ==
    \/ \E sk \in Sketches, err \in BOOLEAN : InitSketch(sk, err)
    \/ SelectFqbn
    \/ \E ok \in BOOLEAN : LoadHardware(ok)
    \/ \E o \in CtagsOutcomes : Ctags(o)
    \/ \E o \in {"error", "missing", "installed"} : IsCoreInstalled(o)
    \/ \E ok \in BOOLEAN : ParseFQBN(ok)
    \/ \E ok \in BOOLEAN : HardwareDirectories(ok)
    \/ \E ok \in BOOLEAN : BundleToolsDirectories(ok)
    \/ \E ok \in BOOLEAN : LibrariesFolder(ok)
    \/ \E ok \in BOOLEAN : BuildPath(ok)
    \/ \E ok \in BOOLEAN : BuildCachePath(ok)
    \/ \E ok \in BOOLEAN : ArduinoDataFolder(ok)
    \/ \E o \in {"load_error", "hardwarepath", "no_hardwarepath"} : IdePreferences(o)
    \/ \E ok \in BOOLEAN : RunBuilder(ok)
    \/ \E ok \in BOOLEAN : CopyHex(ok)
    \/ \E ok \in BOOLEAN : CopyElf(ok)

(***************************************************************************)
(* Specifications                                                          *)
(***************************************************************************)
DbInit ==
    /\ dbs = <<>>
    /\ files = [p \in Paths |-> Missing]
    /\ loaded = NoLoad
    /\ saved = [p \in Paths |-> NotSaved]
    /\ adds = <<>>

Init == DbInit /\ RunStart(DefaultCommandLine)

Next ==
    \/ \E p \in Paths : Construct(p)
    \/ \E p \in Paths, ioerr \in BOOLEAN : LoadDatabase(p, ioerr)
    \/ \E i \in DOMAIN dbs, o \in WriteOutcomes : SaveToFile(i, o)
    \/ \E i \in DOMAIN dbs, t \in Targets, c \in Processes, wd \in WorkingDirs : Add(i, t, c, wd)
    \/ \E p \in Paths, c \in ExternalContents : ExternalWrite(p, c)
    \/ \E p \in Paths : RemoveFile(p)

Spec == Init /\ [][Next]_vars

InitCompile == DbInit /\ \E f \in CommandLines : RunStart(f)

SpecCompile == InitCompile /\ [][NextCompile]_vars

(***************************************************************************)
(* Properties                                                              *)
(***************************************************************************)
IsPrefix(s, t) == Len(s) <= Len(t) /\ \A k \in 1..Len(s) : t[k] = s[k]

Entries(i) == dbs[i].Contents.elems

\* A step keeps every Database, keeps its bound path, keeps the entries it has as
\* a prefix of its entries, and adds as many entries as Add calls were made on it.
AppendOnlyStep ==
    \A i \in DOMAIN dbs :
        /\ i \in DOMAIN dbs'
        /\ dbs'[i].File = dbs[i].File
        /\ IsPrefix(dbs[i].Contents.elems, dbs'[i].Contents.elems)
        /\ adds'[i].calls - adds[i].calls \in {0, 1}
        /\ Len(dbs'[i].Contents.elems) = Len(dbs[i].Contents.elems) + (adds'[i].calls - adds[i].calls)

\* C1 as stated: every Add appends one entry at the end, no call removes, changes
\* or reorders an entry (an earlier entry sequence is a prefix of every later one),
\* and the number of entries of a Database equals the number of Add calls made on
\* it since it was constructed or loaded.
C1_LengthIsAddCalls ==
    [][/\ AppendOnlyStep
       /\ \A i \in DOMAIN dbs' : Len(dbs'[i].Contents.elems) = adds'[i].calls]_vars

\* C1 amended: as above, the number of entries being the number the Database had
\* when it was constructed (none) or loaded, plus the number of Add calls since.
C1_AppendOnly ==
    /\ [](\A i \in DOMAIN dbs : Len(Entries(i)) = adds[i].initial + adds[i].calls)
    /\ [][AppendOnlyStep]_vars

\* Two Add calls were made on a loaded Database that had entries, the second
\* with no explicit directory while the working directory lookup failed.
C1_Witness ==
    \E i \in DOMAIN dbs :
        /\ adds[i].calls = 2
        /\ adds[i].initial > 0
        /\ Entries(i)[Len(Entries(i))].Directory = ""
        /\ Entries(i)[Len(Entries(i)) - 1].Directory # ""

\* C2: LoadDatabase on a file that holds what a successful SaveToFile wrote, when
\* the file can be read, returns no error and a Database with the saved entries:
\* as many, in the same order, with equal directory, command, arguments and file.
C2_RoundTrip ==
    (loaded.called /\ saved[loaded.file].valid /\ loaded.err # "read") =>
        /\ loaded.err = "none"
        /\ loaded.db \in DOMAIN dbs
        /\ dbs[loaded.db].File = loaded.file
        /\ Len(Entries(loaded.db)) = Len(saved[loaded.file].Contents.elems)
        /\ \A k \in 1..Len(Entries(loaded.db)) :
               LET e == Entries(loaded.db)[k]
                   w == saved[loaded.file].Contents.elems[k]
               IN  /\ e.Directory = w.Directory
                   /\ e.Command = w.Command
                   /\ e.Arguments = w.Arguments
                   /\ e.File = w.File

\* A Database with two different entries made by Add was saved and loaded back.
C2_Witness ==
    /\ loaded.called /\ saved[loaded.file].valid /\ loaded.err = "none"
    /\ Len(Entries(loaded.db)) = 2
    /\ Entries(loaded.db)[1] # Entries(loaded.db)[2]
    /\ \A k \in 1..2 : /\ Entries(loaded.db)[k].Command = ""
                       /\ Len(Entries(loaded.db)[k].Arguments) > 0
                       /\ Entries(loaded.db)[k].Directory # ""

\* C3: after any SaveToFile call, failed or not, the target file holds the complete
\* serialization of the entries or the content it had before the call.
C3_SaveIsAllOrNothing ==
    [][\A i \in DOMAIN dbs, o \in WriteOutcomes :
          SaveToFile(i, o) =>
              files'[dbs[i].File] \in {MarshalIndent(dbs[i].Contents), files[dbs[i].File]}]_vars

\* C4: the entry Add appends has the descriptor's directory when it is non-empty
\* and otherwise the directory the process is in at the call; its file is the
\* target and its arguments are the descriptor's.
C4_AddRecordsDirectory ==
    [][\A i \in DOMAIN dbs, t \in Targets, c \in Processes, wd \in WorkingDirs :
          Add(i, t, c, wd) =>
              LET e == dbs'[i].Contents.elems[Len(dbs'[i].Contents.elems)]
              IN  /\ e.Directory = (IF c.Dir # "" THEN c.Dir ELSE wd.path)
                  /\ e.File = t
                  /\ e.Arguments = c.Args]_vars

\* C5: LoadDatabase on a path that does not exist or cannot be read returns a read
\* error and no Database, and changes no Database and no file.
C5_LoadReadError ==
    [][\A p \in Paths, ioerr \in BOOLEAN :
          (LoadDatabase(p, ioerr) /\ (files[p].kind = "missing" \/ ioerr)) =>
              /\ loaded' = Returned(p, 0, "read")
              /\ dbs' = dbs
              /\ files' = files]_vars

\* LoadDatabase failed on a missing file while a Database with an entry exists.
C5_Witness ==
    /\ loaded.called /\ loaded.err = "read" /\ loaded.db = 0
    /\ files[loaded.file].kind = "missing"
    /\ \E i \in DOMAIN dbs : Len(Entries(i)) > 0

\* A JSON array of records with the keys of the schema
ArrayOfRecords(content) ==
    /\ content.kind = "array"
    /\ \A k \in 1..Len(content.elems) :
          content.elems[k].keys \subseteq {"directory", "command", "arguments", "file"}

\* C6: LoadDatabase on a file it can read returns a parse error whenever the
\* content is not a JSON array of command records (invalid JSON, or a JSON value
\* that is not an array, such as null), and succeeds only for such an array.
C6_ParseErrorUnlessArray ==
    (loaded.called /\ loaded.err # "read") =>
        (loaded.err = "none" <=> ArrayOfRecords(files[loaded.file]))

\* C7: a successful SaveToFile on a Database with no entries, however it was
\* obtained, writes the JSON array [].
C7_EmptySavesAsEmptyArray ==
    [][\A i \in DOMAIN dbs :
          (SaveToFile(i, "ok") /\ Len(dbs[i].Contents.elems) = 0) =>
              files'[dbs[i].File] = JArray(<<>>)]_vars

\* C8: every entry of every Database, and every object of a file written by
\* SaveToFile, has exactly one of command and arguments populated.
C8_ExactlyOneRepresentation ==
    /\ \A i \in DOMAIN dbs :
          \A k \in 1..Len(Entries(i)) :
              (Entries(i)[k].Command # "") # (Len(Entries(i)[k].Arguments) > 0)
    /\ \A p \in Paths :
          saved[p].valid =>
              \A k \in 1..Len(files[p].elems) :
                  ("command" \in files[p].elems[k].keys) # ("arguments" \in files[p].elems[k].keys)

\* C9: every entry of every Database has a non-empty directory.
C9_DirectoryNonEmpty ==
    \A i \in DOMAIN dbs :
        \A k \in 1..Len(Entries(i)) : Entries(i)[k].Directory # ""

\* C10: once a step of compile.run has printed an error, the process has
\* terminated with a non-zero exit code (no later step runs); at most one builder
\* entry point is invoked, the one the flags select, and only when every step
\* before it, FQBN parsing included, succeeded.
C10_PrintAndExit ==
    /\ errors # <<>> => (pc = "exited" /\ exitCode # "none")
    /\ Len(invoked) <= 1
    /\ invoked # <<>> => (invoked[1] = EntryPoint /\ "FQBN" \in ctx)
====
